---- MODULE Spec2Model ----
(***************************************************************************)
(* PromptGenerator.py: a PromptGenerator owning a Focus of Modules, a Deck  *)
(* of their cards, a background scheduler task and the prompt assembler.   *)
(* One asyncio event loop runs the owner's calls and the scheduler task;   *)
(* a step of the model is what one task does between two suspension        *)
(* points (the await of a data_fetcher, the await of gather, the sleep).   *)
(* asyncio.CancelledError is a BaseException (Python >= 3.8), so the       *)
(* "except Exception" of update_deck does not catch it.                    *)
(***************************************************************************)
EXTENDS Integers, Sequences, FiniteSets, TLC

\* ---------------------------------------------------------------- bounds
MaxWords == 2     \* words in core_personality, user_info and a card's content
MaxCost == 5      \* largest tokens_used a data_processor reports
MaxWindow == 10   \* largest context_window_size
MaxVal == 2       \* raw values a data source takes in the lifecycle model
MaxEnters == 2    \* times the owner enters the generator's scope

\* --------------------------------------------------------------- strings
\* A string is a sequence of characters; str.split() with no argument cuts
\* at runs of whitespace and drops empty pieces.
IsSpace(c) == c \in {" ", "\n"}

RECURSIVE WordCount(_)
WordCount(s) ==
    IF s = <<>> THEN 0
    ELSE LET r == WordCount(Tail(s))
         IN  IF IsSpace(Head(s)) THEN r
             ELSE IF Len(s) = 1 \/ IsSpace(s[2]) THEN r + 1 ELSE r

\* n one-letter words separated by single blanks
RECURSIVE Text(_)
Text(n) == IF n = 0 THEN <<>>
           ELSE IF n = 1 THEN <<"x">>
           ELSE Text(n - 1) \o <<" ", "x">>

\* sep.join(parts)
RECURSIVE Join(_, _)
Join(sep, parts) ==
    IF parts = <<>> THEN <<>>
    ELSE IF Len(parts) = 1 THEN parts[1]
    ELSE parts[1] \o sep \o Join(sep, Tail(parts))

RECURSIVE SumSeq(_)
SumSeq(s) == IF s = <<>> THEN 0 ELSE Head(s) + SumSeq(Tail(s))

\* ----------------------------------------------------------------- cards
\* What a data_processor returns: (processed_data, tokens_used, timestamp).
Card(content, tokens) == [content |-> content, tokens |-> tokens, ts |-> "None"]

\* the attribute processed_data (or data) is not set on the Module
Absent == [absent |-> TRUE]

\* Raw data is whatever the data source holds; the processor of a module
\* renders it as `words` words of content and reports `cost` tokens_used
\* (nothing checks that the two agree).
RawValues == [words : 0..MaxWords, cost : 0..MaxCost]

\* the values the sources take in the lifecycle model: v words, v tokens
LifecycleValues == {[words |-> v, cost |-> v] : v \in 1..MaxVal}

NextValue(raw) == [words |-> raw.words + 1, cost |-> raw.cost + 1]

data_processor(raw) == Card(Text(raw.words), raw.cost)

ModuleNames == {"text", "time"}

\* ------------------------------------------------------------------ deck
\* A dict keeps insertion order: the deck is a sequence of (name, card).
DeckKeys(d) == {d[i].name : i \in DOMAIN d}

DeckHas(d, n) == n \in DeckKeys(d)

DeckGet(d, n) == d[CHOOSE i \in DOMAIN d : d[i].name = n].card

DeckPut_Partial(d, n, c) ==
    LET e == [name |-> n, card |-> [content |-> c.content, tokens |-> c.tokens]]
    IN  IF DeckHas(d, n)
        THEN [i \in DOMAIN d |-> IF d[i].name = n THEN e ELSE d[i]]
        ELSE Append(d, e)

DeckPut_UnderTemplateKey(d, n, c) ==
    Append(d, [name |-> IF n = "text" THEN "text_module" ELSE "time_module",
               card |-> c])

\* self.deck[n] = c
DeckPut(d, n, c) ==
    IF DeckHas(d, n)
    THEN [i \in DOMAIN d |-> IF d[i].name = n THEN [name |-> n, card |-> c] ELSE d[i]]
    ELSE Append(d, [name |-> n, card |-> c])

\* ------------------------------------------------------ prompt assembler
\* prompt = f"{self.core_personality} {self.user_info} "
Prefix(cp, ui) == cp \o <<" ">> \o ui \o <<" ">>

\* the test of the comprehension's if-clause
Fits(used_tokens, card_tokens, cws) == (used_tokens + card_tokens) <= cws

\* prompt_parts: the deck entries whose card passes the test; used_tokens
\* is the value it has when the comprehension starts
PromptParts(d, used_tokens, cws) ==
    SelectSeq(d, LAMBDA e : Fits(used_tokens, e.card.tokens, cws))

\* total_tokens_used = sum(len(part.split()) for part in prompt_parts)
TotalTokensUsed(parts) ==
    SumSeq([i \in DOMAIN parts |-> WordCount(parts[i].card.content)])

\* " [LOG with {remaining_tokens} tokens]", kept as the number it prints
generate_chat(cws, used_tokens) == [log |-> cws - used_tokens]

generate_prompt(cp, ui, cws, d) ==
    LET prompt == Prefix(cp, ui)
        used_tokens == WordCount(prompt)
        parts == PromptParts(d, used_tokens, cws)
        used2 == used_tokens + TotalTokensUsed(parts)
    IN  [op |-> "generate_prompt",
         text |-> prompt \o Join(<<"\n">>, [i \in DOMAIN parts |-> parts[i].card.content]),
         included |-> [i \in DOMAIN parts |-> parts[i].name],
         chat |-> generate_chat(cws, used2)]

\* ------------------------------------------------------------------ state
VARIABLES
    core_personality,      \* constructor arguments
    user_info,
    context_window_size,
    focus_template,        \* the template passed in: a sequence of (key, name)
    focus,                 \* self.focus: the module names, in dict order
    source,                \* what each module's data source holds now
    data,                  \* Module.data, Absent until a fetch returned
    processed,             \* Module.processed_data, Absent until processed
    deck,                  \* self.deck
    stop_event,            \* self.stop_event.is_set()
    updater_task,          \* self.updater_task: 0 is None, k the k-th task
    tasks,                 \* task 0 is the owner, k >= 1 a background_updater
    preps,                 \* the prepare_data children of the latest gather
    strays,                \* children still running that an earlier gather left
    in_scope,              \* between __aenter__ returning and __aexit__
    enters,                \* __aenter__ calls so far
    ret,                   \* what the owner's last call returned or raised
    errlog                 \* the "Error updating module" lines printed

vars == <<core_personality, user_info, context_window_size, focus_template,
          focus, source, data, processed, deck, stop_event, updater_task,
          tasks, preps, strays, in_scope, enters, ret, errlog>>

params == <<core_personality, user_info, context_window_size, focus_template, focus>>

Owner == 0
SchedIds == 1..MaxEnters
TaskIds == 0..MaxEnters

\* ------------------------------------------------------------ construction
\* templates with unique module names; <<>> is the empty (or absent) one
Templates ==
    {<<>>,
     <<[key |-> "time_module", name |-> "time"]>>,
     <<[key |-> "time_module", name |-> "time"], [key |-> "text_module", name |-> "text"]>>}

default_focus_template ==
    <<[key |-> "text_module", name |-> "text"],
      [key |-> "time_module", name |-> "time"]>>

\* What the callables of default_focus_template give: text_data_fetcher
\* returns the constant "This is some static text." (five words),
\* time_data_fetcher the clock, which time_data_processor renders as
\* "%Y-%m-%d %H:%M:%S" (always two words); both processors return the
\* rendering and len(rendering.split()).
DefaultRaw(m) ==
    LET n == IF m = "text" THEN 5 ELSE 2
    IN  [words |-> n, cost |-> WordCount(Text(n))]

\* the first value of a template's data sources
InitialSource(t) ==
    [m \in ModuleNames |-> IF t = <<>> THEN DefaultRaw(m) ELSE [words |-> 1, cost |-> 1]]

EffectiveTemplate_AsGiven(t) == t

\* focus_template or self.default_focus_template()
EffectiveTemplate(t) == IF t = <<>> THEN default_focus_template ELSE t

\* {module_details[0]: Module(*module_details) for ... in template.values()}
MakeFocus(t) == [i \in DOMAIN t |-> t[i].name]

FocusSet == {focus[i] : i \in DOMAIN focus}

\* the owner has no result yet: nothing was called, or a call is under way
Pending == [op |-> "none"]

\* A task: where it stands (pc) in which function (op), the modules its
\* loop has left (rest), the modules whose fetcher it has called in the
\* current call (fetched), whether a cancellation is pending, and for a
\* running background_updater the parity of the update_deck calls it has
\* completed (tick).
Idle == [pc |-> "idle", op |-> "none", rest |-> <<>>, fetched |-> {},
         must_cancel |-> FALSE, tick |-> 0]

NoTask == [pc |-> "none", op |-> "background_updater", rest |-> <<>>,
           fetched |-> {}, must_cancel |-> FALSE, tick |-> 0]

Init ==
    /\ core_personality = Text(1)
    /\ user_info = Text(1)
    /\ context_window_size = MaxVal + 1
    /\ focus_template \in Templates
    /\ focus = MakeFocus(EffectiveTemplate(focus_template))
    /\ source = InitialSource(focus_template)
    /\ data = [m \in ModuleNames |-> Absent]
    /\ processed = [m \in ModuleNames |-> Absent]
    /\ deck = <<>>
    /\ stop_event = FALSE
    /\ updater_task = 0
    /\ tasks = [t \in TaskIds |-> IF t = Owner THEN Idle ELSE NoTask]
    /\ preps = [m \in ModuleNames |-> "none"]
    /\ strays = [m \in ModuleNames |-> 0]
    /\ in_scope = FALSE
    /\ enters = 0
    /\ ret = Pending
    /\ errlog = {}

\* ------------------------------------------------------------------ Module
\* hasattr(self, 'processed_data')
HasProcessed_Never(p, m) == FALSE

HasProcessed(p, m) == p[m] # Absent

\* A loop of "self.deck[name] = await module.generate_card()" over the
\* modules r runs without suspending while the modules have a cached card:
\* generate_card returns processed_data at once. It stops at the first
\* module that has none (generate_card awaits prepare_data) or at the end.
RECURSIVE Drain_SkipLast(_, _, _)
Drain_SkipLast(p, d, r) ==
    IF Len(r) <= 1 THEN [deck |-> d, rest |-> <<>>]
    ELSE IF HasProcessed(p, Head(r))
         THEN Drain_SkipLast(p, DeckPut(d, Head(r), p[Head(r)]), Tail(r))
         ELSE [deck |-> d, rest |-> r]

RECURSIVE Drain(_, _, _)
Drain(p, d, r) ==
    IF r = <<>> THEN [deck |-> d, rest |-> r]
    ELSE IF HasProcessed(p, Head(r))
         THEN Drain(p, DeckPut(d, Head(r), p[Head(r)]), Tail(r))
         ELSE [deck |-> d, rest |-> r]

\* What task t running `op` does once its loop stands at deck d with the
\* modules r left and f fetched so far: suspend in the data_fetcher of the
\* next module, or run on to the end of `op`.
AfterLoop(t, op, d, r, f) ==
    /\ deck' = d
    /\ IF r # <<>>
       THEN /\ tasks' = [tasks EXCEPT ![t] = [pc |-> "fetch", op |-> op, rest |-> r,
                                             fetched |-> f \cup {Head(r)},
                                             must_cancel |-> tasks[t].must_cancel,
                                             tick |-> tasks[t].tick]]
            /\ ret' = Pending
            /\ UNCHANGED <<updater_task, in_scope>>
       ELSE CASE op = "aenter" ->
                 \* updater_task = asyncio.create_task(...); return self
                 /\ updater_task' = enters
                 /\ tasks' = [tasks EXCEPT
                        ![Owner] = [Idle EXCEPT !.fetched = f],
                        ![enters] = [NoTask EXCEPT !.pc = "created"]]
                 /\ in_scope' = TRUE
                 /\ ret' = [op |-> "aenter", outcome |-> "return"]
              [] op = "update_deck" ->
                 /\ tasks' = [tasks EXCEPT ![t] = [Idle EXCEPT !.fetched = f]]
                 /\ ret' = [op |-> "update_deck", outcome |-> "return"]
                 /\ UNCHANGED <<updater_task, in_scope>>
              [] op = "background_updater" ->
                 \* await asyncio.sleep(self.update_interval)
                 /\ tasks' = [tasks EXCEPT ![t] = [pc |-> "sleep", op |-> op,
                                                  rest |-> <<>>, fetched |-> f,
                                                  must_cancel |-> tasks[t].must_cancel,
                                                  tick |-> 1 - tasks[t].tick]]
                 /\ UNCHANGED <<updater_task, in_scope, ret>>

\* The exception classes a data_fetcher or a data_processor raises: they
\* are the caller's functions, either of them can raise any Exception.
Exceptions == {"ValueError", "KeyError"}

\* What prepare_data raises when its fetcher or its processor (the stage)
\* raises e: it has no try statement, e leaves it as it is.
Surfaced(stage, e) == e

\* "except Exception" in update_deck: what the fetcher or the processor
\* raised is an Exception, asyncio.CancelledError is a BaseException
IsException_None(err) == FALSE

IsException(err) == err \in Exceptions

\* Error err is raised inside generate_card for module m, in the loop of
\* task t. update_deck prints it and goes on with the next module;
\* anywhere else it leaves the function, and background_updater passes on
\* a CancelledError.
Propagate(t, m, err) ==
    LET op == tasks[t].op
        f == tasks[t].fetched
    IN  IF op \in {"update_deck", "background_updater"} /\ IsException(err)
        THEN /\ errlog' = errlog \cup {[module |-> m, error |-> err]}
             /\ LET r == Drain(processed', deck, Tail(tasks[t].rest))
                IN  AfterLoop(t, op, r.deck, r.rest, f)
        ELSE /\ UNCHANGED <<errlog, deck, updater_task, in_scope>>
             /\ IF op = "background_updater"
                THEN /\ tasks' = [tasks EXCEPT ![t] =
                            [pc |-> "done", op |-> op, rest |-> <<>>,
                             fetched |-> f, must_cancel |-> FALSE, tick |-> 0]]
                     /\ UNCHANGED ret
                ELSE /\ tasks' = [tasks EXCEPT ![t] = [Idle EXCEPT !.fetched = f]]
                     /\ ret' = [op |-> op, outcome |-> "raise", error |-> err]

\* ------------------------------------------------------- initialize_deck
\* __aenter__ -> initialize_deck: one prepare_data coroutine per module,
\* handed to gather, which the owner awaits. Children that a failed gather
\* left running stay behind as strays.
Enter ==
    /\ tasks[Owner].pc = "idle"
    /\ ~in_scope
    /\ enters < MaxEnters
    /\ enters' = enters + 1
    /\ strays' = [m \in ModuleNames |->
                    strays[m] + (IF preps[m] = "pending" THEN 1 ELSE 0)]
    /\ preps' = [m \in ModuleNames |-> IF m \in FocusSet THEN "pending" ELSE "none"]
    /\ tasks' = [tasks EXCEPT ![Owner] = [Idle EXCEPT !.pc = "gather", !.op = "aenter"]]
    /\ ret' = Pending
    /\ UNCHANGED <<params, source, data, processed, deck, stop_event,
                   updater_task, in_scope, errlog>>

\* one child of a gather finishes, of the latest gather or a stray
Finish(m, stray, status) ==
    IF stray
    THEN /\ strays[m] > 0
         /\ strays' = [strays EXCEPT ![m] = strays[m] - 1]
         /\ UNCHANGED preps
    ELSE /\ preps[m] = "pending"
         /\ preps' = [preps EXCEPT ![m] = status]
         /\ UNCHANGED strays

\* prepare_data: the fetcher returns and the processor returns, both
\* attributes are set
PrepReturn(m, stray) ==
    /\ Finish(m, stray, "ok")
    /\ data' = [data EXCEPT ![m] = source[m]]
    /\ processed' = [processed EXCEPT ![m] = data_processor(source[m])]
    /\ UNCHANGED <<params, source, deck, stop_event, updater_task, tasks,
                   in_scope, enters, ret, errlog>>

PrepProcessorRaise_DropsCard(m, stray, e) ==
    /\ e \in Exceptions
    /\ Finish(m, stray, Surfaced("data_processor", e))
    /\ data' = [data EXCEPT ![m] = source[m]]
    /\ processed' = [processed EXCEPT ![m] = Absent]
    /\ UNCHANGED <<params, source, deck, stop_event, updater_task,
                   tasks, in_scope, enters, ret, errlog>>

\* prepare_data: the fetcher returns and the processor raises, only
\* self.data is set
PrepProcessorRaise(m, stray, e) ==
    /\ e \in Exceptions
    /\ Finish(m, stray, Surfaced("data_processor", e))
    /\ data' = [data EXCEPT ![m] = source[m]]
    /\ UNCHANGED <<params, source, processed, deck, stop_event, updater_task,
                   tasks, in_scope, enters, ret, errlog>>

\* prepare_data: the fetcher raises
PrepFetcherRaise(m, stray, e) ==
    /\ e \in Exceptions
    /\ Finish(m, stray, Surfaced("data_fetcher", e))
    /\ UNCHANGED <<params, source, data, processed, deck, stop_event,
                   updater_task, tasks, in_scope, enters, ret, errlog>>

\* the children of a gather whose result the owner has taken: the finished
\* ones are forgotten, the others run on
Forget(ps) == [m \in ModuleNames |-> IF ps[m] = "pending" THEN "pending" ELSE "none"]

\* await asyncio.gather(*preparation_tasks) returns when every child has
\* returned
GatherReturns_ReturnExceptions(ps) == \A m \in FocusSet : ps[m] # "pending"

GatherReturns_FirstCompleted(ps) == \E m \in FocusSet : ps[m] = "ok"

GatherReturns(ps) == \A m \in FocusSet : ps[m] = "ok"

\* gather raises the exception of a child as soon as one has failed; the
\* other children go on. initialize_deck and __aenter__ let it through.
InitFail ==
    /\ tasks[Owner].pc = "gather"
    /\ \E m \in FocusSet :
          /\ preps[m] \in Exceptions
          /\ ret' = [op |-> "aenter", outcome |-> "raise", error |-> preps[m]]
    /\ tasks' = [tasks EXCEPT ![Owner] = Idle]
    /\ preps' = Forget(preps)
    /\ UNCHANGED <<params, source, data, processed, deck, stop_event,
                   updater_task, strays, in_scope, enters, errlog>>

InitCollect_FromRawData ==
    /\ tasks[Owner].pc = "gather"
    /\ GatherReturns(preps)
    /\ preps' = Forget(preps)
    /\ LET fresh == [m \in ModuleNames |-> data_processor(source[m])]
           r == Drain(fresh, deck, focus)
       IN  AfterLoop(Owner, "aenter", r.deck, r.rest, {})
    /\ UNCHANGED <<params, source, data, processed, stop_event, strays,
                   enters, errlog>>

\* gather returns once every child has returned; then the loop of
\* generate_card calls fills the deck and __aenter__ creates the task
InitCollect ==
    /\ tasks[Owner].pc = "gather"
    /\ GatherReturns(preps)
    /\ preps' = Forget(preps)
    /\ LET r == Drain(processed, deck, focus)
       IN  AfterLoop(Owner, "aenter", r.deck, r.rest, {})
    /\ UNCHANGED <<params, source, data, processed, stop_event, strays,
                   enters, errlog>>

\* ----------------------------------------------------- the owner's calls
CallGeneratePrompt ==
    /\ tasks[Owner].pc = "idle"
    /\ ret' = generate_prompt(core_personality, user_info, context_window_size, deck)
    /\ UNCHANGED <<params, source, data, processed, deck, stop_event,
                   updater_task, tasks, preps, strays, in_scope, enters, errlog>>

\* await generator.update_deck(), called by the owner itself
CallUpdateDeck ==
    /\ tasks[Owner].pc = "idle"
    /\ LET r == Drain(processed, deck, focus)
       IN  AfterLoop(Owner, "update_deck", r.deck, r.rest, {})
    /\ UNCHANGED <<params, source, data, processed, stop_event, preps, strays,
                   enters, errlog>>

\* await module.generate_card(), called by the owner itself
CallGenerateCard(m) ==
    /\ tasks[Owner].pc = "idle"
    /\ m \in FocusSet
    /\ IF HasProcessed(processed, m)
       THEN /\ ret' = [op |-> "generate_card", outcome |-> "return",
                       value |-> processed[m]]
            /\ tasks' = [tasks EXCEPT ![Owner] = Idle]
       ELSE /\ tasks' = [tasks EXCEPT ![Owner] =
                            [pc |-> "fetch", op |-> "generate_card", rest |-> <<m>>,
                             fetched |-> {m}, must_cancel |-> FALSE, tick |-> 0]]
            /\ ret' = Pending
    /\ UNCHANGED <<params, source, data, processed, deck, stop_event,
                   updater_task, preps, strays, in_scope, enters, errlog>>

\* Task.cancel(): nothing for a task that is done; otherwise the task gets
\* a CancelledError the next time it runs
Cancel(tk) == [tk EXCEPT !.must_cancel = tk.pc \notin {"done", "cancelled"}]

Exit_NoTeardown ==
    /\ tasks[Owner].pc = "idle"
    /\ in_scope
    /\ in_scope' = FALSE
    /\ ret' = [op |-> "aexit", outcome |-> "return"]
    /\ UNCHANGED <<params, source, data, processed, deck, stop_event, tasks,
                   updater_task, preps, strays, enters, errlog>>

Exit_CancelOnly ==
    /\ tasks[Owner].pc = "idle"
    /\ in_scope
    /\ tasks' = [tasks EXCEPT ![updater_task] = Cancel(tasks[updater_task])]
    /\ in_scope' = FALSE
    /\ ret' = [op |-> "aexit", outcome |-> "return"]
    /\ UNCHANGED <<params, source, data, processed, deck, stop_event, updater_task,
                   preps, strays, enters, errlog>>

\* __aexit__: self.stop_event.set(); self.updater_task.cancel()
Exit ==
    /\ tasks[Owner].pc = "idle"
    /\ in_scope
    /\ stop_event' = TRUE
    /\ tasks' = [tasks EXCEPT ![updater_task] = Cancel(tasks[updater_task])]
    /\ in_scope' = FALSE
    /\ ret' = [op |-> "aexit", outcome |-> "return"]
    /\ UNCHANGED <<params, source, data, processed, deck, updater_task, preps, strays,
                   enters, errlog>>

\* --------------------------------------- prepare_data inside generate_card
\* Task t stands in "await self.data_fetcher()" for the module at the head
\* of its loop. The fetcher and the processor return: both attributes are
\* set, generate_card returns processed_data.
FetchReturn(t) ==
    /\ tasks[t].pc = "fetch"
    /\ ~tasks[t].must_cancel
    /\ LET m == Head(tasks[t].rest)
           op == tasks[t].op
       IN  /\ data' = [data EXCEPT ![m] = source[m]]
           /\ processed' = [processed EXCEPT ![m] = data_processor(source[m])]
           /\ IF op = "generate_card"
              THEN /\ ret' = [op |-> op, outcome |-> "return", value |-> processed'[m]]
                   /\ tasks' = [tasks EXCEPT ![t] = [Idle EXCEPT !.fetched = tasks[t].fetched]]
                   /\ UNCHANGED <<deck, updater_task, in_scope>>
              ELSE LET r == Drain(processed', DeckPut(deck, m, processed'[m]),
                                  Tail(tasks[t].rest))
                   IN  AfterLoop(t, op, r.deck, r.rest, tasks[t].fetched)
    /\ UNCHANGED <<params, source, stop_event, preps, strays, enters, errlog>>

ProcessorRaise(t, e) ==
    /\ tasks[t].pc = "fetch"
    /\ ~tasks[t].must_cancel
    /\ e \in Exceptions
    /\ data' = [data EXCEPT ![Head(tasks[t].rest)] = source[Head(tasks[t].rest)]]
    /\ UNCHANGED processed
    /\ Propagate(t, Head(tasks[t].rest), Surfaced("data_processor", e))
    /\ UNCHANGED <<params, source, stop_event, preps, strays, enters>>

FetcherRaise(t, e) ==
    /\ tasks[t].pc = "fetch"
    /\ ~tasks[t].must_cancel
    /\ e \in Exceptions
    /\ UNCHANGED <<data, processed>>
    /\ Propagate(t, Head(tasks[t].rest), Surfaced("data_fetcher", e))
    /\ UNCHANGED <<params, source, stop_event, preps, strays, enters>>

\* ----------------------------------------------------- background_updater
SchedRun_IgnoresStop(k) ==
    /\ k \in SchedIds
    /\ tasks[k].pc \in {"created", "sleep"}
    /\ ~tasks[k].must_cancel
    /\ LET r == Drain(processed, deck, focus)
       IN  AfterLoop(k, "background_updater", r.deck, r.rest, {})
    /\ UNCHANGED <<params, source, data, processed, stop_event, preps, strays,
                   enters, errlog>>

\* The task runs for the first time, or its sleep is over: the while test,
\* then update_deck and the next sleep, or the end of the loop.
SchedRun(k) ==
    /\ k \in SchedIds
    /\ tasks[k].pc \in {"created", "sleep"}
    /\ ~tasks[k].must_cancel
    /\ IF stop_event
       THEN /\ tasks' = [tasks EXCEPT ![k] = [NoTask EXCEPT !.pc = "done",
                                              !.fetched = tasks[k].fetched]]
            /\ UNCHANGED <<deck, updater_task, in_scope, ret>>
       ELSE LET r == Drain(processed, deck, focus)
            IN  AfterLoop(k, "background_updater", r.deck, r.rest, {})
    /\ UNCHANGED <<params, source, data, processed, stop_event, preps, strays,
                   enters, errlog>>

CancelDelivered_Swallowed(k) ==
    /\ k \in SchedIds
    /\ tasks[k].must_cancel
    /\ tasks[k].pc \in {"created", "fetch", "sleep"}
    /\ tasks' = [tasks EXCEPT ![k].must_cancel = FALSE]
    /\ UNCHANGED <<params, source, data, processed, deck, stop_event,
                   updater_task, preps, strays, in_scope, enters, ret, errlog>>

\* The cancelled task runs again. Before its first step the coroutine is
\* never entered and the task ends cancelled; in the sleep the
\* CancelledError is caught by background_updater; in a fetch it is raised
\* inside update_deck.
CancelDelivered(k) ==
    /\ k \in SchedIds
    /\ tasks[k].must_cancel
    /\ tasks[k].pc \in {"created", "fetch", "sleep"}
    /\ UNCHANGED <<data, processed>>
    /\ CASE tasks[k].pc = "created" ->
              /\ tasks' = [tasks EXCEPT ![k] = [NoTask EXCEPT !.pc = "cancelled"]]
              /\ UNCHANGED <<deck, updater_task, in_scope, ret, errlog>>
         [] tasks[k].pc = "sleep" ->
              /\ tasks' = [tasks EXCEPT ![k] = [NoTask EXCEPT !.pc = "done",
                                                !.fetched = tasks[k].fetched]]
              /\ UNCHANGED <<deck, updater_task, in_scope, ret, errlog>>
         [] tasks[k].pc = "fetch" ->
              Propagate(k, Head(tasks[k].rest), "CancelledError")
    /\ UNCHANGED <<params, source, stop_event, preps, strays, enters>>

\* ------------------------------------------------------------ environment
\* the value at a module's data source changes: the source moves on to its
\* next value. The default template's text never changes and its clock
\* always renders as two words: there the raw values stay as they are.
SourceChange(m) ==
    /\ m \in FocusSet
    /\ focus_template # <<>>
    /\ source[m].words < MaxVal
    /\ source' = [source EXCEPT ![m] = NextValue(source[m])]
    /\ UNCHANGED <<params, data, processed, deck, stop_event, updater_task,
                   tasks, preps, strays, in_scope, enters, ret, errlog>>

\* The scoped lifecycle: the generator is used through "async with", the
\* owner generates prompts inside and outside the scope.
Next ==
    \/ Enter
    \/ \E m \in ModuleNames, stray \in BOOLEAN : PrepReturn(m, stray)
    \/ \E m \in ModuleNames, stray \in BOOLEAN, e \in Exceptions :
          PrepProcessorRaise(m, stray, e)
    \/ \E m \in ModuleNames, stray \in BOOLEAN, e \in Exceptions :
          PrepFetcherRaise(m, stray, e)
    \/ InitFail
    \/ InitCollect
    \/ CallGeneratePrompt
    \/ Exit
    \/ \E k \in SchedIds : SchedRun(k)
    \/ \E k \in SchedIds : CancelDelivered(k)
    \/ \E m \in ModuleNames : SourceChange(m)

Spec == Init /\ [][Next]_vars

\* The event loop runs every task that is ready: a task whose cancellation
\* was requested is scheduled and gets its CancelledError.
SpecLive ==
    /\ Spec
    /\ \A k \in SchedIds : WF_vars(CancelDelivered(k))

\* The generator and its modules called directly, without entering the
\* scope: update_deck and generate_card on modules that have no card yet.
NextDirect ==
    \/ CallUpdateDeck
    \/ \E m \in ModuleNames : CallGenerateCard(m)
    \/ CallGeneratePrompt
    \/ \E t \in TaskIds : FetchReturn(t)
    \/ \E t \in TaskIds, e \in Exceptions : ProcessorRaise(t, e)
    \/ \E t \in TaskIds, e \in Exceptions : FetcherRaise(t, e)
    \/ \E m \in ModuleNames : SourceChange(m)

SpecDirect == Init /\ [][NextDirect]_vars

\* asyncio.create_task(generator.background_updater()) on a generator that
\* was constructed and not initialized: the statement of __aenter__ that
\* starts the scheduler, on its own. The owner keeps the task.
StartUpdater ==
    /\ tasks[Owner].pc = "idle"
    /\ updater_task = 0
    /\ updater_task' = 1
    /\ tasks' = [tasks EXCEPT ![1] = [NoTask EXCEPT !.pc = "created"]]
    /\ UNCHANGED <<params, source, data, processed, deck, stop_event, preps,
                   strays, in_scope, enters, ret, errlog>>

\* await generator.__aexit__(None, None, None), called by the owner itself
CallAexit ==
    /\ tasks[Owner].pc = "idle"
    /\ updater_task # 0
    /\ stop_event' = TRUE
    /\ tasks' = [tasks EXCEPT ![updater_task] = Cancel(tasks[updater_task])]
    /\ ret' = [op |-> "aexit", outcome |-> "return"]
    /\ UNCHANGED <<params, source, data, processed, deck, updater_task, preps,
                   strays, in_scope, enters, errlog>>

\* The scheduler run on its own: its cycles meet modules that have no card
\* yet, whose fetcher and processor can fail.
NextSched ==
    \/ StartUpdater
    \/ CallAexit
    \/ \E k \in SchedIds : SchedRun(k)
    \/ \E k \in SchedIds : CancelDelivered(k)
    \/ \E k \in SchedIds : FetchReturn(k)
    \/ \E k \in SchedIds, e \in Exceptions : ProcessorRaise(k, e)
    \/ \E k \in SchedIds, e \in Exceptions : FetcherRaise(k, e)
    \/ \E m \in ModuleNames : SourceChange(m)

\* a data_fetcher that was awaited comes to an end: it returns (and the
\* processor returns or raises) or it raises
FetchEnds(k) ==
    \/ FetchReturn(k)
    \/ \E e \in Exceptions : ProcessorRaise(k, e)
    \/ \E e \in Exceptions : FetcherRaise(k, e)

\* The event loop runs every task that is ready (a sleep that is over, a
\* pending cancellation), and every awaited fetch ends.
SpecSched ==
    /\ Init
    /\ [][NextSched]_vars
    /\ \A k \in SchedIds :
          /\ WF_vars(SchedRun(k))
          /\ WF_vars(CancelDelivered(k))
          /\ WF_vars(FetchEnds(k))

\* ------------------------------------------------- the assembler's inputs
\* generate_prompt is a function of the constructor arguments and the
\* deck: every deck of cards over the focus, with any content and any
\* reported cost, in any order the deck can take.
PackOrders == {<<>>, <<"text">>, <<"time">>, <<"text", "time">>, <<"time", "text">>}

InitPack ==
    /\ core_personality \in {Text(n) : n \in 0..MaxWords}
    /\ user_info \in {Text(n) : n \in 0..MaxWords}
    /\ context_window_size \in 0..MaxWindow
    /\ focus_template = default_focus_template
    /\ focus = MakeFocus(EffectiveTemplate(focus_template))
    /\ \E order \in PackOrders, raw \in [ModuleNames -> RawValues] :
          /\ \A m \in ModuleNames :
                (\A i \in DOMAIN order : order[i] # m) => raw[m] = [words |-> 1, cost |-> 1]
          /\ source = raw
          /\ data = [m \in ModuleNames |->
                       IF \E i \in DOMAIN order : order[i] = m THEN raw[m] ELSE Absent]
          /\ processed = [m \in ModuleNames |->
                            IF data[m] = Absent THEN Absent ELSE data_processor(data[m])]
          /\ deck = [i \in DOMAIN order |->
                       [name |-> order[i], card |-> processed[order[i]]]]
    /\ stop_event = FALSE
    /\ updater_task = 0
    /\ tasks = [t \in TaskIds |-> IF t = Owner THEN Idle ELSE NoTask]
    /\ preps = [m \in ModuleNames |-> "none"]
    /\ strays = [m \in ModuleNames |-> 0]
    /\ in_scope = FALSE
    /\ enters = 0
    /\ ret = Pending
    /\ errlog = {}

NextPack == CallGeneratePrompt

SpecPack == InitPack /\ [][NextPack]_vars

\* ============================================================== claims
\* the token cost generate_prompt compares: the word count of the prefix
PrefixCost == WordCount(Prefix(core_personality, user_info))

\* the declared token costs of the cards a returned prompt includes
IncludedCosts(r) == [i \in DOMAIN r.included |-> DeckGet(deck, r.included[i]).tokens]

\* C1: the packed token total of a returned prompt (the prefix's word count
\* plus the declared token costs of the included cards) never exceeds
\* context_window_size. The prefix is always included, so the statement is
\* read for the windows that hold at least the prefix.
C1_PackedTotalWithinWindow ==
    (ret.op = "generate_prompt" /\ PrefixCost <= context_window_size) =>
        PrefixCost + SumSeq(IncludedCosts(ret)) <= context_window_size

\* the cards a cumulative greedy packing includes, in deck order
RECURSIVE GreedyIncluded(_, _, _)
GreedyIncluded(d, used, cws) ==
    IF d = <<>> THEN <<>>
    ELSE IF used + Head(d).card.tokens <= cws
         THEN <<Head(d).name>> \o GreedyIncluded(Tail(d), used + Head(d).card.tokens, cws)
         ELSE GreedyIncluded(Tail(d), used, cws)

\* C2: generate_prompt includes a card iff the prefix cost plus the costs
\* of the cards already included plus the card's declared cost is at most
\* context_window_size (cumulative greedy packing in deck order).
C2_GreedyCumulative ==
    ret.op = "generate_prompt" =>
        ret.included = GreedyIncluded(deck, PrefixCost, context_window_size)

\* C3: every update_deck call re-invokes the data_fetcher of every module
\* of the focus: when a scheduler cycle is over (the task sleeps), the
\* fetcher of each module was called in that cycle.
C3_CycleRefetchesEveryModule ==
    \A k \in SchedIds : tasks[k].pc = "sleep" => tasks[k].fetched = FocusSet

TemplateNames == {EffectiveTemplate(focus_template)[i].name :
                      i \in DOMAIN EffectiveTemplate(focus_template)}

\* an __aenter__ has returned: its task was created
Initialized == updater_task # 0

\* C5: once initialize_deck has succeeded, the deck has exactly one entry
\* per descriptor of the template, keyed by the descriptors' module names.
C5_DeckKeyedByNames ==
    Initialized =>
        /\ Len(deck) = Len(EffectiveTemplate(focus_template))
        /\ DeckKeys(deck) = TemplateNames

C5_Witness ==
    /\ Initialized
    /\ Len(deck) = 2
    /\ focus_template # <<>>
    /\ ret = [op |-> "aenter", outcome |-> "return"]

Failed(ps) == {m \in FocusSet : ps[m] \in Exceptions}

\* C6: while no initialize_deck has succeeded, a failed one leaves the deck
\* without entries and no scheduler task exists; and when a child of the
\* gather has failed, the owner leaves the gather only with that error,
\* the deck and updater_task as they were.
C6_FailedInitNoDeck ==
    /\ [](~Initialized => (deck = <<>> /\ ~in_scope
                           /\ \A k \in SchedIds : tasks[k].pc = "none"))
    /\ [][(tasks[Owner].pc = "gather" /\ Failed(preps) # {}
           /\ tasks'[Owner].pc # "gather") =>
              /\ ret'.op = "aenter" /\ ret'.outcome = "raise"
              /\ \E m \in Failed(preps) : ret'.error = preps[m]
              /\ deck' = deck
              /\ updater_task' = updater_task
              /\ ~in_scope']_vars

C6_Witness ==
    /\ ret.op = "aenter" /\ ret.outcome = "raise"
    /\ enters = 1
    /\ deck = <<>>
    /\ \E m \in FocusSet : processed[m] # Absent

\* the deck's entry for module n, Absent when the deck has none
EntryOf(d, n) == IF DeckHas(d, n) THEN DeckGet(d, n) ELSE Absent

InUpdateDeck(t) ==
    tasks[t].pc = "fetch" /\ tasks[t].op \in {"update_deck", "background_updater"}

SeqSet(r) == {r[i] : i \in DOMAIN r}

\* C4: inside update_deck, when the regeneration of a module raises, that
\* module's deck entry stays what it was and the error is printed; when it
\* succeeds the entry becomes the newly generated card; either way the loop
\* goes on over the remaining modules and update_deck returns normally.
C4_FailureIsolated ==
    [][\A t \in TaskIds :
         (InUpdateDeck(t) /\ tasks'[t] # tasks[t]) =>
            LET m == Head(tasks[t].rest)
                left == IF tasks'[t].pc = "fetch" THEN SeqSet(tasks'[t].rest) ELSE {}
            IN  /\ IF processed'[m] # Absent
                   THEN EntryOf(deck', m) = data_processor(source[m])
                   ELSE /\ EntryOf(deck', m) = EntryOf(deck, m)
                        /\ \E e \in errlog' : e.module = m
                /\ tasks'[t].pc \in {"fetch", "idle"}
                /\ tasks'[t].pc = "idle" => ret' = [op |-> "update_deck", outcome |-> "return"]
                /\ left \subseteq SeqSet(Tail(tasks[t].rest))
                /\ \A m2 \in SeqSet(Tail(tasks[t].rest)) \ left :
                      EntryOf(deck', m2) = processed'[m2] /\ processed'[m2] # Absent]_vars

\* update_deck has returned with one module failed and the other one just
\* regenerated
C4_Witness ==
    /\ tasks[Owner].pc = "idle"
    /\ ret = [op |-> "update_deck", outcome |-> "return"]
    /\ \E m1, m2 \in FocusSet :
          /\ m1 # m2
          /\ ~DeckHas(deck, m1)
          /\ \E e \in errlog : e.module = m1
          /\ m2 \in tasks[Owner].fetched
          /\ EntryOf(deck, m2) = processed[m2]
          /\ processed[m2] # Absent

\* C7: generate_card on a module that has a cached card returns that card
\* at once, calls neither the fetcher nor the processor and changes nothing
\* of the module; on a module without one it starts prepare_data, once, and
\* returns the card that prepare_data stored.
C7_LazyCache ==
    /\ [][\A m \in ModuleNames :
            CallGenerateCard(m) =>
               IF processed[m] # Absent
               THEN /\ ret' = [op |-> "generate_card", outcome |-> "return",
                               value |-> processed[m]]
                    /\ tasks'[Owner].pc = "idle"
                    /\ tasks'[Owner].fetched = {}
                    /\ data' = data /\ processed' = processed
               ELSE /\ tasks'[Owner].pc = "fetch"
                    /\ tasks'[Owner].rest = <<m>>
                    /\ tasks'[Owner].fetched = {m}
                    /\ data' = data /\ processed' = processed]_vars
    /\ [][(tasks[Owner].pc = "fetch" /\ tasks[Owner].op = "generate_card"
           /\ tasks'[Owner] # tasks[Owner]) =>
              /\ tasks'[Owner].pc = "idle"
              /\ ret'.op = "generate_card"
              /\ ret'.outcome = "return" =>
                    ret'.value = processed'[Head(tasks[Owner].rest)]]_vars

\* a second generate_card call on a module returned the card of the first
\* although the source has changed since
C7_Witness ==
    /\ tasks[Owner].pc = "idle"
    /\ tasks[Owner].fetched = {}
    /\ ret.op = "generate_card" /\ ret.outcome = "return"
    /\ \E m \in FocusSet :
          /\ ret.value = processed[m]
          /\ processed[m] # data_processor(source[m])

\* an __aexit__ has completed: a scheduler task exists that is not the task
\* of a scope the owner is in
Exited ==
    \E k \in SchedIds : tasks[k].pc # "none" /\ (k # updater_task \/ ~in_scope)

Ended(k) == tasks[k].pc \in {"done", "cancelled"}

CompleteCard(c) ==
    /\ DOMAIN c = {"content", "tokens", "ts"}
    /\ c.tokens \in Nat

\* C10: a generate_prompt call is one step of the owner, possible whenever
\* the owner is between two calls, whatever the scheduler and the
\* prepare_data children are doing; its result is computed from the deck of
\* the state it starts in; every deck entry is a complete card.
C10_PromptReadsCurrentDeck ==
    /\ [](\A i \in DOMAIN deck : CompleteCard(deck[i].card))
    /\ [](tasks[Owner].pc = "idle" => ENABLED CallGeneratePrompt)
    /\ [][(ret' # ret /\ ret'.op = "generate_prompt") =>
             /\ tasks[Owner].pc = "idle"
             /\ tasks' = tasks
             /\ deck' = deck
             /\ ret' = generate_prompt(core_personality, user_info,
                                       context_window_size, deck)]_vars

\* a prompt was generated from a filled deck while the scheduler task was
\* alive and a module already held a newer card than the deck
C10_Witness ==
    /\ ret.op = "generate_prompt"
    /\ ret.included # <<>>
    /\ \E k \in SchedIds : tasks[k].pc \in {"created", "sleep"}
    /\ \E m \in FocusSet : processed[m] # EntryOf(deck, m)

\* C11: the stop signal is never cleared, and once it is set no scheduler
\* task of the generator starts or completes an update_deck: a scheduler
\* task is then only created (by a later entry of the scope) or ended, and
\* none of them stands inside update_deck or in the sleep after one unless
\* its cancellation is pending.
C11_NoCycleAfterStop ==
    /\ [][stop_event => stop_event']_vars
    /\ [][\A k \in SchedIds :
            (stop_event /\ tasks'[k] # tasks[k]) =>
               /\ tasks'[k].pc \in {"created", "done", "cancelled"}
               /\ tasks'[k].tick = 0]_vars
    /\ [](\A k \in SchedIds :
            (stop_event /\ tasks[k].pc \in {"fetch", "sleep"}) => tasks[k].must_cancel)

\* the scope was entered a second time after the stop signal was set, and
\* the scheduler task of the second entry has already returned
C11_Witness ==
    /\ stop_event
    /\ in_scope
    /\ updater_task = 2
    /\ tasks[2].pc = "done"
    /\ tasks[1].pc = "done"

\* C12: prepare_data never swallows a failure, and what reaches its caller
\* (here the gather of initialize_deck) is an error of kind FetchError when
\* the data_fetcher raised and of kind ProcessError when the
\* data_processor raised.
C12_ErrorKindByStage ==
    [][\A m \in ModuleNames, e \in Exceptions :
          /\ PrepFetcherRaise(m, FALSE, e) => preps'[m] = "FetchError"
          /\ PrepProcessorRaise(m, FALSE, e) => preps'[m] = "ProcessError"]_vars

\* a value is a string: a sequence of characters
IsString(x) == DOMAIN x = 1..Len(x) /\ \A i \in DOMAIN x : x[i] \in STRING

\* C13: a generator constructed with an empty (or absent) focus template
\* has the focus of default_focus_template, exactly the two modules "text"
\* and "time"; once it is initialized the deck holds a card for each of the
\* two and the content of both cards is a non-empty string.
C13_DefaultFocus ==
    focus_template = <<>> =>
        /\ Len(focus) = 2
        /\ FocusSet = {"text", "time"}
        /\ Initialized =>
              /\ DeckKeys(deck) = {"text", "time"}
              /\ \A i \in DOMAIN deck :
                    /\ IsString(deck[i].card.content)
                    /\ deck[i].card.content # <<>>
                    /\ WordCount(deck[i].card.content) = deck[i].card.tokens

C13_Witness ==
    /\ focus_template = <<>>
    /\ Initialized
    /\ ret = [op |-> "aenter", outcome |-> "return"]
    /\ Len(deck) = 2

\* C14: the token total from which generate_prompt computes the surplus it
\* hands to generate_chat is the prefix cost plus the declared token costs
\* of the cards it included: the figure of the inclusion test.
C14_TotalUsesDeclaredCosts ==
    ret.op = "generate_prompt" =>
        ret.chat = generate_chat(context_window_size,
                                 PrefixCost + SumSeq(IncludedCosts(ret)))

\* C15: initialize_deck has two phases. When the owner starts to wait in
\* the gather, a prepare_data child exists for every module of the focus
\* and none has completed; while it waits, any child still running can be
\* the next to complete; the deck is not written before every child has
\* completed successfully, and the owner goes on to fill the deck only
\* then.
C15_TwoPhaseInit ==
    /\ [][(tasks[Owner].pc # "gather" /\ tasks'[Owner].pc = "gather") =>
             \A m \in FocusSet : preps'[m] = "pending"]_vars
    /\ [](tasks[Owner].pc = "gather" =>
             \A m \in FocusSet :
                preps[m] = "pending" => ENABLED PrepReturn(m, FALSE))
    /\ [][(tasks[Owner].pc = "gather" /\ (deck' # deck \/ in_scope')) =>
             \A m \in FocusSet : preps[m] = "ok" /\ processed[m] # Absent]_vars
    /\ [][tasks[Owner].pc = "gather" =>
             (deck' = deck \/ DeckKeys(deck') = FocusSet)]_vars

\* the owner waits in the gather of its first entry, the child of the
\* second module has completed before the child of the first, and the
\* deck is still empty
C15_Witness ==
    /\ tasks[Owner].pc = "gather"
    /\ enters = 1
    /\ Len(focus) = 2
    /\ preps[focus[2]] = "ok"
    /\ preps[focus[1]] = "pending"
    /\ processed[focus[2]] # Absent
    /\ deck = <<>>

\* the loop of scheduler task k is over or about to be: it never started,
\* it has ended, the stop signal is set or its cancellation is pending
Stopping(k) ==
    \/ tasks[k].pc = "none"
    \/ Ended(k)
    \/ stop_event
    \/ tasks[k].must_cancel

\* C16: a scheduler task that is neither stopped nor cancelled completes
\* update_deck again and again (the parity of its completed calls keeps
\* changing); at the loop test it starts a cycle exactly when the stop
\* signal is clear and returns otherwise; inside a cycle, whatever a
\* module's fetcher or processor does, it goes on to the next module or to
\* the sleep, and the loop does not end.
C16_SchedulerKeepsCycling ==
    /\ \A k \in SchedIds : []<>(Stopping(k) \/ tasks[k].tick = 0)
    /\ \A k \in SchedIds : []<>(Stopping(k) \/ tasks[k].tick = 1)
    /\ [][\A k \in SchedIds :
            (tasks[k].pc \in {"created", "sleep"} /\ ~tasks[k].must_cancel
             /\ tasks'[k] # tasks[k] /\ ~tasks'[k].must_cancel) =>
               IF stop_event
               THEN tasks'[k].pc = "done"
               ELSE tasks'[k].pc \in {"fetch", "sleep"}]_vars
    /\ [][\A k \in SchedIds :
            (tasks[k].pc = "fetch" /\ ~tasks[k].must_cancel
             /\ tasks'[k] # tasks[k] /\ ~tasks'[k].must_cancel) =>
               /\ tasks'[k].pc \in {"fetch", "sleep"}
               /\ tasks'[k].pc = "fetch" =>
                     /\ tasks'[k].tick = tasks[k].tick
                     /\ Len(tasks'[k].rest) < Len(tasks[k].rest)
               /\ tasks'[k].pc = "sleep" => tasks'[k].tick # tasks[k].tick]_vars

\* the scheduler sleeps after an even number of cycles, in which a module
\* failed and another was regenerated, and nothing has stopped it
C16_Witness ==
    /\ tasks[1].pc = "sleep"
    /\ tasks[1].tick = 0
    /\ ~Stopping(1)
    /\ errlog # {}
    /\ deck # <<>>
    /\ \E m \in FocusSet : processed[m] = Absent

\* C17: every key of the deck is the name of a module of the focus; no
\* step removes a deck entry; and from the first successful
\* initialize_deck on the deck is not empty.
C17_DeckKeysInFocus ==
    /\ [](DeckKeys(deck) \subseteq FocusSet)
    /\ [](Cardinality(DeckKeys(deck)) = Len(deck))
    /\ [][DeckKeys(deck) \subseteq DeckKeys(deck')]_vars
    /\ [](Initialized => deck # <<>>)

\* a later initialization has failed after the first one had succeeded:
\* the deck still holds the cards of the first
C17_Witness ==
    /\ Initialized
    /\ enters = 2
    /\ ret.op = "aenter" /\ ret.outcome = "raise"
    /\ deck # <<>>
    /\ DeckKeys(deck) = FocusSet

\* C18: leaving the scope sets the stop signal and requests the
\* cancellation of the scheduler task without suspending in between: no
\* task ever has a cancellation pending while the stop signal is clear.
\* The step changes neither the deck nor any module's raw data or cached
\* card, and of the tasks only the scheduler task of the scope, whose
\* cancellation it requests.
C18_ExitTearsDownTaskOnly ==
    /\ [](\A k \in SchedIds : tasks[k].must_cancel => stop_event)
    /\ [][(in_scope /\ ~in_scope') =>
             /\ stop_event'
             /\ deck' = deck
             /\ processed' = processed
             /\ data' = data
             /\ updater_task' = updater_task
             /\ \A k \in TaskIds :
                   tasks'[k] # tasks[k] =>
                      /\ k = updater_task
                      /\ tasks'[k] = [tasks[k] EXCEPT !.must_cancel = TRUE]]_vars

\* the scope was just left: the stop signal is set, the cancellation of
\* the sleeping scheduler task is pending, deck and cards are still there
C18_Witness ==
    /\ ret = [op |-> "aexit", outcome |-> "return"]
    /\ stop_event
    /\ tasks[updater_task].must_cancel
    /\ tasks[updater_task].pc = "sleep"
    /\ DeckKeys(deck) = FocusSet
    /\ \A m \in FocusSet : processed[m] # Absent

\* C19: a prepare_data that fails destroys no cached card. When its
\* fetcher raises, the raw data and the cached card of every module stay
\* as they are; when its processor raises, the module's raw data is the
\* value just fetched and every cached card stays as it is (an absent one
\* absent). A cached card is never removed, and it changes only together
\* with the raw data it was processed from.
C19_FailedPrepareKeepsCard ==
    /\ [][\A m \in ModuleNames, stray \in BOOLEAN, e \in Exceptions :
            /\ PrepFetcherRaise(m, stray, e) =>
                  (data' = data /\ processed' = processed)
            /\ PrepProcessorRaise(m, stray, e) =>
                  /\ data' = [data EXCEPT ![m] = source[m]]
                  /\ processed' = processed]_vars
    /\ [][\A m \in ModuleNames :
            /\ processed[m] # Absent => processed'[m] # Absent
            /\ processed'[m] # processed[m] =>
                  /\ data'[m] = source[m]
                  /\ processed'[m] = data_processor(data'[m])]_vars

\* a module holds a card from an earlier prepare_data and raw data from a
\* later one whose processor raised
C19_Witness ==
    \E m \in FocusSet :
        /\ processed[m] # Absent
        /\ data[m] # Absent
        /\ processed[m] # data_processor(data[m])
        /\ preps[m] \in Exceptions

\* the scoped lifecycle of one entry: the scope was entered at most once
OneEntry == enters <= 1

\* C20: in the scoped lifecycle of one successful entry, with its
\* scheduler cycles, its generate_prompt calls and its exit, every deck
\* entry is at all times the cached card of the module of the focus that
\* has the entry's name.
C20_DeckMirrorsCache ==
    OneEntry =>
        \A i \in DOMAIN deck :
            /\ deck[i].name \in FocusSet
            /\ deck[i].card = processed[deck[i].name]

\* the one entry succeeded, cycles ran, the source moved on, a prompt was
\* generated and the scope was left
C20_Witness ==
    /\ OneEntry
    /\ Initialized
    /\ ~in_scope
    /\ tasks[1].pc = "done"
    /\ ret.op = "generate_prompt"
    /\ DeckKeys(deck) = FocusSet
    /\ \E m \in FocusSet : processed[m] # data_processor(source[m])

====
